---- MODULE Spec2Model ----
(***************************************************************************)
(* The painting cost calculator (src/src/App.js and its second copy        *)
(* src/unnamed/part_000): the form state of the PaintingCalculator         *)
(* component, its handlers, and the pricing engine calculateEstimate.      *)
(*                                                                         *)
(* Numbers.  The engine multiplies decimal constants.  Every amount is     *)
(* held exactly, as an integer count of a fixed unit:                      *)
(*   base rates             in quarters  (1.5 = 6/4, 1.75 = 7/4)           *)
(*   tier, difficulty and                                                  *)
(*   surface weights        in tenths    (1.3 = 13/10)                     *)
(*   the surface multiplier in twentieths (the mean of two tenths)         *)
(*   prices before rounding in 1/Scale dollar, Scale = 4*10*10*20          *)
(* A JavaScript number that may be NaN is a record [nan, v].               *)
(***************************************************************************)
EXTENDS Integers, Sequences, FiniteSets, TLC

VARIABLES
    build,      \* which copy of the component runs: "App" or "part_000"
    formData,   \* useState formData
    errors,     \* useState errors: field name -> message
    estimate,   \* useState estimate: Null or [min, max, tierName]
    requests,   \* how many POSTs of handleSubmit await their response
    timer,      \* the pending debounced validateClientInfo, or NoTimer
    last,       \* what the last handler did, with the body it handed to
                \* fetch (observation only)
    firstRun    \* input and result of the first engine run (observation
                \* only; recorded when the specification starts it at Null)

vars == <<build, formData, errors, estimate, requests, timer, last, firstRun>>

-----------------------------------------------------------------------------
(* JavaScript values *)

Null == [kind |-> "null"]
Undefined == "undefined"

Num(n) == [nan |-> FALSE, v |-> n]
NaN == [nan |-> TRUE, v |-> 0]

\* a < b on numbers: false when either is NaN
NumLt(a, b) == ~a.nan /\ ~b.nan /\ a.v < b.v
NumAdd(a, b) == IF a.nan \/ b.nan THEN NaN ELSE Num(a.v + b.v)
NumSub(a, b) == IF a.nan \/ b.nan THEN NaN ELSE Num(a.v - b.v)
NumMul(a, b) == IF a.nan \/ b.nan THEN NaN ELSE Num(a.v * b.v)
\* Math.max(a, b)
MathMax(a, b) == IF a.nan \/ b.nan THEN NaN ELSE IF a.v >= b.v THEN a ELSE b

\* Array.prototype.includes
includes(arr, x) == \E i \in 1..Len(arr) : arr[i] = x
\* Array.prototype.filter
filter(arr, Keep(_)) == SelectSeq(arr, Keep)

Digits == {"0", "1", "2", "3", "4", "5", "6", "7", "8", "9"}
DigitValue(c) ==
    CASE c = "0" -> 0 [] c = "1" -> 1 [] c = "2" -> 2 [] c = "3" -> 3
      [] c = "4" -> 4 [] c = "5" -> 5 [] c = "6" -> 6 [] c = "7" -> 7
      [] c = "8" -> 8 [] c = "9" -> 9
WhiteSpace == {" "}
CharAt(s, i) == SubSeq(s, i, i)

\* String.prototype.trim
RECURSIVE TrimStart(_)
TrimStart(s) ==
    IF Len(s) > 0 /\ CharAt(s, 1) \in WhiteSpace
    THEN TrimStart(SubSeq(s, 2, Len(s))) ELSE s
RECURSIVE TrimEnd(_)
TrimEnd(s) ==
    IF Len(s) > 0 /\ CharAt(s, Len(s)) \in WhiteSpace
    THEN TrimEnd(SubSeq(s, 1, Len(s) - 1)) ELSE s
trim(s) == TrimEnd(TrimStart(s))

\* the value of the leading run of decimal digits of s from position i on
RECURSIVE DigitRun(_, _, _)
DigitRun(s, i, acc) ==
    IF i <= Len(s) /\ CharAt(s, i) \in Digits
    THEN DigitRun(s, i + 1, 10 * acc + DigitValue(CharAt(s, i)))
    ELSE acc

\* parseInt(string): leading white space skipped, an optional sign, then the
\* longest run of digits; NaN when there is no digit there
parseInt(str) ==
    LET s == TrimStart(str)
        signed == Len(s) > 0 /\ CharAt(s, 1) \in {"+", "-"}
        from == IF signed THEN 2 ELSE 1
    IN  IF from > Len(s) \/ CharAt(s, from) \notin Digits
        THEN NaN
        ELSE IF signed /\ CharAt(s, 1) = "-"
             THEN Num(0 - DigitRun(s, from, 0))
             ELSE Num(DigitRun(s, from, 0))

-----------------------------------------------------------------------------
(* BASE RATES & MULTIPLIERS SECTION *)

\* per square foot, in quarters: 1.5 and 3.5 in App.js, 1.75 and 3.0 in part_000
BASE_RATES ==
    IF build = "App" THEN [min |-> 6, max |-> 14] ELSE [min |-> 7, max |-> 12]

\* PAINT_MULTIPLIERS with designer priced as premium
PAINT_MULTIPLIERS_Flat == [standard |-> 10, premium |-> 13, designer |-> 13]

\* in tenths
PAINT_MULTIPLIERS == [standard |-> 10, premium |-> 13, designer |-> 16]

\* DIFFICULTY_MULTIPLIERS with the weights of standard and complex exchanged
DIFFICULTY_MULTIPLIERS_Swapped ==
    [basic |-> 10, standard |-> 20, moderate |-> 15, complex |-> 12,
     high_difficulty |-> 25]

\* in tenths
DIFFICULTY_MULTIPLIERS ==
    [basic |-> 10, standard |-> 12, moderate |-> 15, complex |-> 20,
     high_difficulty |-> 25]

\* in tenths
SURFACE_MULTIPLIERS ==
    [interior |-> [walls |-> 10, ceilings |-> 4, trim |-> 3],
     exterior |-> [wood_siding |-> 10, vinyl_siding |-> 11, cement |-> 13,
                   stucco |-> 15, brick |-> 16, trim |-> 2]]

\* in dollars
MINIMUM_PRICING == [absoluteMin |-> 3000, rangeSpread |-> 3000]

\* prices before rounding are counted in 1/Scale dollar
Scale == 4 * 10 * 10 * 20
Dollars(n) == Num(n * Scale)
\* the neutral multiplier 1.0, in tenths
OneTenths == 10
\* the minimum base 0.8 for non-wall interior work, in tenths
MinimumBaseTenths == 8

\* table[key] || 1.0, in tenths
LookupOr1(table, key) ==
    IF key \in DOMAIN table /\ table[key] # 0 THEN table[key] ELSE OneTenths

\* the property names every object literal inherits from Object.prototype
ObjectPrototypeKeys ==
    {"constructor", "toString", "toLocaleString", "valueOf", "hasOwnProperty",
     "isPrototypeOf", "propertyIsEnumerable", "__proto__"}
\* table[key] is an inherited function or object: truthy, so || 1.0 keeps it,
\* and NaN in a product
Inherited(table, key) == key \notin DOMAIN table /\ key \in ObjectPrototypeKeys

RECURSIVE SeqMax(_)
\* Math.max(...arr) of a non-empty array of integers
SeqMax(arr) ==
    IF Len(arr) = 1 THEN arr[1]
    ELSE LET m == SeqMax(Tail(arr)) IN IF arr[1] >= m THEN arr[1] ELSE m

-----------------------------------------------------------------------------
(* calculateEstimate *)

PrimaryExterior == {"wood_siding", "vinyl_siding", "cement", "stucco", "brick"}
IsPrimaryExterior(surface) == surface \in PrimaryExterior
IsWallsOrCeilings(surface) == surface \in {"walls", "ceilings"}

\* exteriorSurfaces.map(surface => SURFACE_MULTIPLIERS.exterior[surface] || 1.0)
ExteriorMultipliers(exteriorSurfaces) ==
    [i \in 1..Len(exteriorSurfaces) |->
        LookupOr1(SURFACE_MULTIPLIERS.exterior, exteriorSurfaces[i])]

\* InteriorBranch without the minimum base for non-wall work
InteriorBranchNoBase(surfaces) ==
    (IF includes(surfaces, "walls") THEN SURFACE_MULTIPLIERS.interior.walls ELSE 0)
    + (IF includes(surfaces, "ceilings")
       THEN SURFACE_MULTIPLIERS.interior.ceilings ELSE 0)
    + (IF includes(surfaces, "trim") THEN SURFACE_MULTIPLIERS.interior.trim ELSE 0)

\* projectType = 'interior': the additive approach.  In tenths.
InteriorBranch(surfaces) ==
    LET walls == IF includes(surfaces, "walls")
                 THEN SURFACE_MULTIPLIERS.interior.walls ELSE 0
        ceilings == IF includes(surfaces, "ceilings")
                    THEN SURFACE_MULTIPLIERS.interior.ceilings ELSE 0
        trimW == IF includes(surfaces, "trim")
                 THEN SURFACE_MULTIPLIERS.interior.trim ELSE 0
        sum == 0 + walls + ceilings + trimW
    IN  IF ~includes(surfaces, "walls") /\ sum > 0
        THEN sum + MinimumBaseTenths
        ELSE sum

\* ExteriorBranch with the trim weight never added
ExteriorBranchNoTrim(surfaces, current) ==
    LET exteriorSurfaces == filter(surfaces, IsPrimaryExterior)
    IN  IF Len(exteriorSurfaces) > 0
        THEN SeqMax(ExteriorMultipliers(exteriorSurfaces))
        ELSE current

RECURSIVE SeqSum(_)
\* the sum of an array of integers
SeqSum(arr) == IF Len(arr) = 0 THEN 0 ELSE arr[1] + SeqSum(Tail(arr))

\* ExteriorBranch with the primary weights stacked instead of the highest taken
ExteriorBranchSum(surfaces, current) ==
    LET exteriorSurfaces == filter(surfaces, IsPrimaryExterior)
    IN  IF Len(exteriorSurfaces) > 0
        THEN SeqSum(ExteriorMultipliers(exteriorSurfaces))
             + (IF includes(surfaces, "trim")
                THEN SURFACE_MULTIPLIERS.exterior.trim ELSE 0)
        ELSE IF includes(surfaces, "trim")
             THEN OneTenths + SURFACE_MULTIPLIERS.exterior.trim
             ELSE current

\* ExteriorBranch with the weight of the primary ticked last instead of the
\* highest
ExteriorBranchLast(surfaces, current) ==
    LET exteriorSurfaces == filter(surfaces, IsPrimaryExterior)
        multipliers == ExteriorMultipliers(exteriorSurfaces)
    IN  IF Len(exteriorSurfaces) > 0
        THEN multipliers[Len(multipliers)]
             + (IF includes(surfaces, "trim")
                THEN SURFACE_MULTIPLIERS.exterior.trim ELSE 0)
        ELSE IF includes(surfaces, "trim")
             THEN OneTenths + SURFACE_MULTIPLIERS.exterior.trim
             ELSE current

\* projectType = 'exterior' or 'both': the highest primary weight, plus trim.
\* `current` is the value of surfaceMultiplier on entry.  In tenths.
ExteriorBranch(surfaces, current) ==
    LET exteriorSurfaces == filter(surfaces, IsPrimaryExterior)
    IN  IF Len(exteriorSurfaces) > 0
        THEN SeqMax(ExteriorMultipliers(exteriorSurfaces))
             + (IF includes(surfaces, "trim")
                THEN SURFACE_MULTIPLIERS.exterior.trim ELSE 0)
        ELSE IF includes(surfaces, "trim")
             THEN OneTenths + SURFACE_MULTIPLIERS.exterior.trim
             ELSE current

\* projectType = 'both': the interior accumulator.  In tenths.
BothInterior(surfaces) ==
    LET interiorSurfaces == filter(surfaces, IsWallsOrCeilings)
        acc == IF Len(interiorSurfaces) > 0
               THEN (IF includes(surfaces, "walls")
                     THEN SURFACE_MULTIPLIERS.interior.walls ELSE 0)
                    + (IF includes(surfaces, "ceilings")
                       THEN SURFACE_MULTIPLIERS.interior.ceilings ELSE 0)
               ELSE 0
    IN  IF includes(surfaces, "trim") /\ Len(interiorSurfaces) > 0
        THEN acc + SURFACE_MULTIPLIERS.interior.trim
        ELSE acc

\* projectType = 'both': the exterior accumulator.  In tenths.
BothExterior(surfaces) ==
    LET exteriorSurfaces == filter(surfaces, IsPrimaryExterior)
        acc == IF Len(exteriorSurfaces) > 0
               THEN SeqMax(ExteriorMultipliers(exteriorSurfaces))
               ELSE OneTenths
    IN  IF includes(surfaces, "trim") /\ Len(exteriorSurfaces) > 0
        THEN acc + SURFACE_MULTIPLIERS.exterior.trim
        ELSE acc

\* BothMean without the division by 2
BothMeanSum(surfaces) ==
    2 * ((IF BothInterior(surfaces) >= OneTenths
          THEN BothInterior(surfaces) ELSE OneTenths) + BothExterior(surfaces))

\* BothMean without the Math.max on the interior accumulator
BothMeanNoClamp(surfaces) == BothInterior(surfaces) + BothExterior(surfaces)

\* (Math.max(interiorMultiplier, 1.0) + exteriorMultiplier) / 2, in twentieths:
\* half of a sum of tenths is that sum counted in twentieths
BothMean(surfaces) ==
    LET interiorMultiplier == BothInterior(surfaces)
        exteriorMultiplier == BothExterior(surfaces)
    IN  (IF interiorMultiplier >= OneTenths THEN interiorMultiplier ELSE OneTenths)
        + exteriorMultiplier

\* surfaceMultiplier without the surfaces.length > 0 guard
surfaceMultiplierUnguarded(projectType, surfaces) ==
    IF projectType = "both" THEN BothMean(surfaces)
    ELSE IF projectType = "interior" THEN 2 * InteriorBranch(surfaces)
    ELSE 2 * ExteriorBranch(surfaces, OneTenths)

\* surfaceMultiplier with a 'both' project left at the value of the shared
\* exterior branch
surfaceMultiplierShared(projectType, surfaces) ==
    IF Len(surfaces) > 0
    THEN IF projectType = "interior" THEN 2 * InteriorBranch(surfaces)
         ELSE 2 * ExteriorBranch(surfaces, OneTenths)
    ELSE 2 * OneTenths

\* the surface multiplier of calculateEstimate, in twentieths
surfaceMultiplier(projectType, surfaces) ==
    LET initial == OneTenths
        first == IF projectType = "interior"
                 THEN InteriorBranch(surfaces)
                 ELSE IF projectType = "exterior" \/ projectType = "both"
                      THEN ExteriorBranch(surfaces, initial)
                      ELSE initial
    IN  IF Len(surfaces) > 0
        THEN IF projectType = "both" THEN BothMean(surfaces) ELSE 2 * first
        ELSE 2 * initial

\* Math.ceil of an amount in 1/Scale
MathCeil(x) ==
    IF x.nan THEN NaN ELSE Num((x.v + (Scale - 1)) \div Scale)

\* Math.round: the nearest integer, halves up, of an amount in 1/Scale
MathRound(x) ==
    IF x.nan THEN NaN ELSE Num((x.v + (Scale \div 2)) \div Scale)

tierNames ==
    [standard |-> "Standard Paint", premium |-> "Premium Paint",
     designer |-> "Designer/Specialty Paint"]

\* SpreadFloor with the spread check left out
SpreadFloorOff(minPrice, maxPrice) == maxPrice

\* "Ensure minimum spread between low and high estimates": the new maxPrice
\* (amounts in 1/Scale dollar)
SpreadFloor(minPrice, maxPrice) ==
    IF NumLt(NumSub(maxPrice, minPrice), Dollars(MINIMUM_PRICING.rangeSpread))
    THEN NumAdd(minPrice, Dollars(MINIMUM_PRICING.rangeSpread))
    ELSE maxPrice

\* AbsoluteFloor with the floor left out
AbsoluteFloorOff(minPrice, maxPrice) == [min |-> minPrice, max |-> maxPrice]

\* AbsoluteFloor raising maxPrice by the spread instead of taking Math.max
AbsoluteFloorShift(minPrice, maxPrice) ==
    IF NumLt(minPrice, Dollars(MINIMUM_PRICING.absoluteMin))
    THEN [min |-> Dollars(MINIMUM_PRICING.absoluteMin),
          max |-> NumAdd(maxPrice, Dollars(MINIMUM_PRICING.rangeSpread))]
    ELSE [min |-> minPrice, max |-> maxPrice]

\* AbsoluteFloor setting maxPrice to absoluteMin + rangeSpread outright
AbsoluteFloorReset(minPrice, maxPrice) ==
    IF NumLt(minPrice, Dollars(MINIMUM_PRICING.absoluteMin))
    THEN [min |-> Dollars(MINIMUM_PRICING.absoluteMin),
          max |-> Dollars(MINIMUM_PRICING.absoluteMin
                          + MINIMUM_PRICING.rangeSpread)]
    ELSE [min |-> minPrice, max |-> maxPrice]

\* "Ensure absolute minimum pricing": the new minPrice and maxPrice
AbsoluteFloor(minPrice, maxPrice) ==
    IF NumLt(minPrice, Dollars(MINIMUM_PRICING.absoluteMin))
    THEN [min |-> Dollars(MINIMUM_PRICING.absoluteMin),
          max |-> MathMax(maxPrice,
                          Dollars(MINIMUM_PRICING.absoluteMin
                                  + MINIMUM_PRICING.rangeSpread))]
    ELSE [min |-> minPrice, max |-> maxPrice]

\* Math.floor of an amount in 1/Scale
MathFloor(x) == IF x.nan THEN NaN ELSE Num(x.v \div Scale)

\* ApplyFloors with the maximum truncated instead of rounded
ApplyFloorsTruncMax(rawMin, rawMax) ==
    LET floored == AbsoluteFloor(rawMin, SpreadFloor(rawMin, rawMax))
    IN  [min |-> MathRound(floored.min), max |-> MathFloor(floored.max)]

\* the two floors in the order of calculateEstimate, then the rounding
ApplyFloors(rawMin, rawMax) ==
    LET floored == AbsoluteFloor(rawMin, SpreadFloor(rawMin, rawMax))
    IN  [min |-> MathRound(floored.min), max |-> MathRound(floored.max)]

\* the per-square-foot band after the three multipliers, in 1/Scale dollar
RateBand(fd, surfMult) ==
    LET paintMultiplier == LookupOr1(PAINT_MULTIPLIERS, fd.paintTier)
        difficultyMultiplier ==
            LookupOr1(DIFFICULTY_MULTIPLIERS, fd.difficultyLevel)
    IN  IF \/ Inherited(PAINT_MULTIPLIERS, fd.paintTier)
           \/ Inherited(DIFFICULTY_MULTIPLIERS, fd.difficultyLevel)
        THEN [min |-> NaN, max |-> NaN]
        ELSE [min |-> Num(BASE_RATES.min * paintMultiplier
                          * difficultyMultiplier * surfMult),
              max |-> Num(BASE_RATES.max * paintMultiplier
                          * difficultyMultiplier * surfMult)]

\* sqftNum * baseMin and sqftNum * baseMax, in 1/Scale dollar
RawPrices(fd, surfMult) ==
    LET sqftNum == parseInt(fd.squareFootage)
        band == RateBand(fd, surfMult)
    IN  [min |-> NumMul(sqftNum, band.min),
         max |-> NumMul(sqftNum, band.max)]

\* calculateEstimate from the multiplication by the surface multiplier on
EstimateWith(fd, surfMult) ==
    LET raw == RawPrices(fd, surfMult)
        floored == ApplyFloors(raw.min, raw.max)
    IN  [kind |-> "estimate", min |-> floored.min, max |-> floored.max,
         tierName |-> IF fd.paintTier \in DOMAIN tierNames
                      THEN tierNames[fd.paintTier]
                      ELSE IF Inherited(tierNames, fd.paintTier)
                           THEN "[inherited]" ELSE Undefined]

NoResult == [kind |-> "none"]

\* a calculateEstimate that reads the stored estimate: it never quotes below
\* what the form last showed
calculateEstimateSticky(fd) ==
    IF fd.projectType = "" \/ fd.squareFootage = "" \/ fd.paintTier = ""
    THEN NoResult
    ELSE LET fresh == EstimateWith(fd, surfaceMultiplier(fd.projectType, fd.surfaces))
         IN  IF estimate = Null THEN fresh
             ELSE [fresh EXCEPT !.min = MathMax(fresh.min, estimate.min),
                                !.max = MathMax(fresh.max, estimate.max)]

\* calculateEstimate: the value handed to setEstimate, or NoResult when the
\* function returns early
calculateEstimate(fd) ==
    IF fd.projectType = "" \/ fd.squareFootage = "" \/ fd.paintTier = ""
    THEN NoResult
    ELSE EstimateWith(fd, surfaceMultiplier(fd.projectType, fd.surfaces))

-----------------------------------------------------------------------------
(* validation *)

Lower == {"a", "b", "c", "d", "e", "f", "g", "h", "i", "j", "k", "l", "m",
          "n", "o", "p", "q", "r", "s", "t", "u", "v", "w", "x", "y", "z"}
Upper == {"A", "B", "C", "D", "E", "F", "G", "H", "I", "J", "K", "L", "M",
          "N", "O", "P", "Q", "R", "S", "T", "U", "V", "W", "X", "Y", "Z"}
AlNum == Lower \cup Upper \cup Digits
\* the character class of the local part of emailRegex (the grave accent, which
\* a TLA+ string cannot hold, is left out; no modelled input contains it)
LocalChars == AlNum \cup {".", "!", "#", "$", "%", "&", "'", "*", "+", "/",
                          "=", "?", "^", "_", "{", "|", "}", "~", "-"}
\* [-.\s]
PhoneSeparators == {"-", "."} \cup WhiteSpace

\* the first position of character c in s from position i on, 0 when absent
RECURSIVE IndexOf(_, _, _)
IndexOf(s, c, i) ==
    IF i > Len(s) THEN 0
    ELSE IF CharAt(s, i) = c THEN i ELSE IndexOf(s, c, i + 1)

\* [a-zA-Z0-9](?:[a-zA-Z0-9-]{0,61}[a-zA-Z0-9])?
IsLabel(s) ==
    /\ Len(s) >= 1
    /\ Len(s) <= 63
    /\ CharAt(s, 1) \in AlNum
    /\ CharAt(s, Len(s)) \in AlNum
    /\ \A i \in 1..Len(s) : CharAt(s, i) \in AlNum \cup {"-"}

\* label(?:\.label)*
RECURSIVE IsDomain(_)
IsDomain(s) ==
    LET dot == IndexOf(s, ".", 1)
    IN  IF dot = 0 THEN IsLabel(s)
        ELSE IsLabel(SubSeq(s, 1, dot - 1)) /\ IsDomain(SubSeq(s, dot + 1, Len(s)))

\* emailRegex.test(email)
validateEmail(email) ==
    LET at == IndexOf(email, "@", 1)
    IN  /\ at >= 2
        /\ \A i \in 1..(at - 1) : CharAt(email, i) \in LocalChars
        /\ IsDomain(SubSeq(email, at + 1, Len(email)))

\* the position after an optional character of class cls at position i
SkipOptional(s, i, cls) ==
    IF i <= Len(s) /\ CharAt(s, i) \in cls THEN i + 1 ELSE i
\* the position after exactly n digits from position i, 0 when they are not there
DigitsAt(s, i, n) ==
    IF i > 0 /\ i + n - 1 <= Len(s)
       /\ \A k \in i..(i + n - 1) : CharAt(s, k) \in Digits
    THEN i + n ELSE 0

\* !phone || phoneRegex.test(phone)
validatePhoneNumber(phone) ==
    LET p1 == IF SubSeq(phone, 1, 2) = "+1"
              THEN SkipOptional(phone, 3, PhoneSeparators) ELSE 1
        p2 == SkipOptional(phone, p1, {"("})
        p3 == DigitsAt(phone, p2, 3)
        p4 == SkipOptional(phone, SkipOptional(phone, p3, {")"}), PhoneSeparators)
        p5 == DigitsAt(phone, IF p3 = 0 THEN 0 ELSE p4, 3)
        p6 == SkipOptional(phone, p5, PhoneSeparators)
        p7 == DigitsAt(phone, IF p5 = 0 THEN 0 ELSE p6, 4)
    IN  phone = "" \/ p7 = Len(phone) + 1

NoErrors == [f \in {} |-> ""]
\* newErrors[field] = message when cond
ErrorIf(cond, field, message) == IF cond THEN field :> message ELSE NoErrors

\* the useEffect that sets isClientInfoComplete and showEstimationFields
clientComplete(fd) ==
    /\ Len(trim(fd.clientName)) >= 2
    /\ validateEmail(fd.email)
    /\ Len(trim(fd.address)) > 0

\* newErrors of validateClientInfo, for the form data the timer closed over
validateClientInfo(fd) ==
    LET name == trim(fd.clientName)
    IN  ErrorIf(Len(name) > 0 /\ Len(name) < 2, "clientName",
                "Name must be at least 2 characters")
        @@ ErrorIf(~(Len(name) > 0 /\ Len(name) < 2) /\ Len(name) > 100,
                   "clientName", "Name cannot exceed 100 characters")
        @@ ErrorIf(Len(trim(fd.email)) > 0 /\ ~validateEmail(fd.email), "email",
                   "Please enter a valid email address")
        @@ ErrorIf(Len(trim(fd.phone)) > 0 /\ ~validatePhoneNumber(fd.phone),
                   "phone",
                   "Please enter a valid phone number (e.g., (555) 123-4567)")

\* newErrors of validateForm
validateForm(fd) ==
    LET name == trim(fd.clientName)
        sqft == parseInt(fd.squareFootage)
    IN  ErrorIf(name = "", "clientName", "Name is required")
        @@ ErrorIf(name # "" /\ Len(name) < 2, "clientName",
                   "Name must be at least 2 characters")
        @@ ErrorIf(name # "" /\ Len(name) >= 2 /\ Len(name) > 100, "clientName",
                   "Name cannot exceed 100 characters")
        @@ ErrorIf(trim(fd.email) = "", "email", "Email is required")
        @@ ErrorIf(trim(fd.email) # "" /\ ~validateEmail(fd.email), "email",
                   "Please enter a valid email address")
        @@ ErrorIf(trim(fd.address) = "", "address",
                   "Address is required (street address, city, state, ZIP code)")
        @@ ErrorIf(Len(trim(fd.phone)) > 0 /\ ~validatePhoneNumber(fd.phone),
                   "phone", "Please enter a valid phone number")
        @@ ErrorIf(fd.projectType = "", "projectType",
                   "Please select a project type")
        @@ ErrorIf(trim(fd.squareFootage) = "", "squareFootage",
                   "Please enter square footage")
        @@ ErrorIf(trim(fd.squareFootage) # "" /\ NumLt(sqft, Num(100)),
                   "squareFootage", "Square footage must be at least 100")
        @@ ErrorIf(fd.paintTier = "", "paintTier", "Please select a paint tier")

\* a validateForm that returns true although the square footage is below 100
FormIsValidBelowMinimum(fd) ==
    \A field \in DOMAIN validateForm(fd) :
        validateForm(fd)[field] = "Square footage must be at least 100"

\* a validateForm that returns true whatever the phone number is
FormIsValidAnyPhone(fd) == DOMAIN validateForm(fd) \subseteq {"phone"}

\* the return value of validateForm: Object.keys(newErrors).length === 0
FormIsValid(fd) == DOMAIN validateForm(fd) = {}

-----------------------------------------------------------------------------
(* the component state and its handlers *)

Builds == {"App", "part_000"}

\* the most POSTs in flight at once
MaxInFlight == 2

\* a form whose difficulty select starts at 'standard'
InitialFormDataStandard ==
    [clientName |-> "", email |-> "", phone |-> "", address |-> "",
     projectType |-> "", squareFootage |-> "", paintTier |-> "",
     surfaces |-> <<>>, difficultyLevel |-> "standard", additionalNotes |-> ""]

InitialFormData ==
    [clientName |-> "", email |-> "", phone |-> "", address |-> "",
     projectType |-> "", squareFootage |-> "", paintTier |-> "",
     surfaces |-> <<>>, difficultyLevel |-> "basic", additionalNotes |-> ""]

\* formData of a form filled by a client with valid contact details
CompletedForm(projectType, sqft, tier, difficulty, surfaces) ==
    [clientName |-> "Al", email |-> "a@b.co", phone |-> "", address |-> "1 Elm",
     projectType |-> projectType, squareFootage |-> sqft, paintTier |-> tier,
     surfaces |-> surfaces, difficultyLevel |-> difficulty,
     additionalNotes |-> ""]

NoTimer == [kind |-> "none"]
\* the fields validateClientInfo reads from the render that set the timer
TimerFor(fd) ==
    [kind |-> "timer", clientName |-> fd.clientName, email |-> fd.email,
     phone |-> fd.phone]

NoBody == [kind |-> "none"]
NotRecorded == [kind |-> "off"]
\* a handler that neither validates nor posts
Did(op, alert) ==
    [op |-> op, passed |-> FALSE, engine |-> FALSE, body |-> NoBody,
     alert |-> alert]
\* the change handlers and the debounced check: no engine run, no POST, no
\* alert
Edited == Did("change", "")

\* the pricing inputs of calculateEstimate
EngineInput(fd) ==
    [projectType |-> fd.projectType, squareFootage |-> fd.squareFootage,
     paintTier |-> fd.paintTier, difficultyLevel |-> fd.difficultyLevel,
     surfaces |-> fd.surfaces]

\* firstRun after an engine run: the first run's input and result, and whether
\* a run on another input has come after it
Recorded(first, ran, input, result) ==
    IF ~ran \/ first = NotRecorded THEN first
    ELSE IF first = Null
         THEN [kind |-> "run", input |-> input, result |-> result,
               other |-> FALSE]
         ELSE [first EXCEPT !.other = @ \/ input # first.input]

\* submissionData of handleSubmit (submittedAt, the clock, is a token)
submissionData(fd) ==
    [clientName |-> fd.clientName, email |-> fd.email, phone |-> fd.phone,
     address |-> fd.address, projectType |-> fd.projectType,
     squareFootage |-> parseInt(fd.squareFootage), paintTier |-> fd.paintTier,
     surfaces |-> fd.surfaces, difficultyLevel |-> fd.difficultyLevel,
     additionalNotes |-> fd.additionalNotes, submittedAt |-> "now"]

ContactFields == {"clientName", "email", "phone", "address"}
InteriorSurfaceIds == {"walls", "ceilings", "trim"}
ExteriorSurfaceIds == {"wood_siding", "trim", "stucco", "cement", "vinyl_siding", "brick"}

\* the input element of a field is rendered: the contact inputs always, the
\* estimation fields once showEstimationFields is set
FieldShown(name) == name \in ContactFields \/ clientComplete(formData)

\* the checkbox of a surface is rendered
SurfaceShown(surface) ==
    /\ clientComplete(formData)
    /\ \/ formData.projectType = "interior" /\ surface \in InteriorSurfaceIds
       \/ /\ build = "part_000"
          /\ formData.projectType \in {"exterior", "both"}
          /\ surface \in ExteriorSurfaceIds

Init ==
    /\ build \in Builds
    /\ formData = InitialFormData
    /\ errors = NoErrors
    /\ estimate = Null
    /\ requests = 0
    /\ timer = TimerFor(InitialFormData)
    /\ last = Edited
    /\ firstRun = NotRecorded

\* a handleInputChange that drops the stored estimate when a field changes
handleInputChangeClears(name, value) ==
    /\ FieldShown(name)
    /\ value # formData[name]
    /\ formData' = [formData EXCEPT ![name] = value]
    /\ errors' = IF name \in DOMAIN errors /\ errors[name] # ""
                 THEN [errors EXCEPT ![name] = ""] ELSE errors
    /\ timer' = IF name \in {"clientName", "email", "address"}
                THEN TimerFor(formData') ELSE timer
    /\ estimate' = Null
    /\ last' = Edited
    /\ UNCHANGED <<build, requests, firstRun>>

\* a change event of the input called name, carrying its new value
handleInputChange(name, value) ==
    /\ FieldShown(name)
    /\ value # formData[name]
    /\ formData' = [formData EXCEPT ![name] = value]
    /\ errors' = IF name \in DOMAIN errors /\ errors[name] # ""
                 THEN [errors EXCEPT ![name] = ""] ELSE errors
    /\ timer' = IF name \in {"clientName", "email", "address"}
                THEN TimerFor(formData') ELSE timer
    /\ last' = Edited
    /\ UNCHANGED <<build, estimate, requests, firstRun>>

\* the toggle of handleSurfaceChange appending the id whether present or not
toggleAppends(surfaces, surface) == Append(surfaces, surface)

\* prev.surfaces.includes(surface) ? prev.surfaces.filter(s => s !== surface)
\*                                 : [...prev.surfaces, surface]
toggle(surfaces, surface) ==
    IF includes(surfaces, surface)
    THEN SelectSeq(surfaces, LAMBDA s : s # surface)
    ELSE Append(surfaces, surface)

handleSurfaceChange(surface) ==
    /\ SurfaceShown(surface)
    /\ formData' =
         [formData EXCEPT !.surfaces = toggle(formData.surfaces, surface)]
    /\ last' = Edited
    /\ UNCHANGED <<build, errors, estimate, requests, timer, firstRun>>

handleTierSelect(tier) ==
    /\ clientComplete(formData)
    /\ formData' = [formData EXCEPT !.paintTier = tier]
    /\ last' = Edited
    /\ UNCHANGED <<build, errors, estimate, requests, timer, firstRun>>

\* the debounce timer fires: setErrors(prev => ({...prev, ...newErrors}))
timerFires ==
    /\ timer # NoTimer
    /\ errors' = validateClientInfo(timer) @@ errors
    /\ timer' = NoTimer
    /\ last' = Edited
    /\ UNCHANGED <<build, formData, estimate, requests, firstRun>>

\* a handleSubmit that posts without calling calculateEstimate
handleSubmitNoEngine ==
    LET passed == FormIsValid(formData)
    IN  /\ clientComplete(formData)
        /\ passed => requests < MaxInFlight
        /\ errors' = validateForm(formData)
        /\ requests' = IF passed THEN requests + 1 ELSE requests
        /\ last' = [op |-> "handleSubmit", passed |-> passed, engine |-> FALSE,
                    body |-> IF passed THEN submissionData(formData) ELSE NoBody,
                    alert |-> ""]
        /\ UNCHANGED <<build, formData, estimate, timer, firstRun>>

\* a click on the submit button, up to the await of fetch
handleSubmit ==
    LET passed == FormIsValid(formData)
        result == calculateEstimate(formData)
        ran == passed /\ result # NoResult
    IN  /\ clientComplete(formData)
        /\ passed => requests < MaxInFlight
        /\ errors' = validateForm(formData)
        /\ estimate' = IF ran THEN result ELSE estimate
        /\ requests' = IF passed THEN requests + 1 ELSE requests
        /\ firstRun' = Recorded(firstRun, ran, EngineInput(formData), result)
        /\ last' = [op |-> "handleSubmit", passed |-> passed, engine |-> passed,
                    body |-> IF passed THEN submissionData(formData) ELSE NoBody,
                    alert |-> ""]
        /\ UNCHANGED <<build, formData, timer>>

AlertFor(outcome) ==
    CASE outcome = "ok" ->
           "Form submitted successfully! You will be contacted soon for a detailed consultation."
      [] outcome = "notOk" ->
           "There was an issue submitting your form. Please try again or contact us directly."
      [] outcome = "networkError" ->
           "There was a network error submitting your form. Please check your internet connection and try again."

\* a response handler that drops the estimate when the POST failed
responseDropsEstimate(outcome) ==
    /\ requests > 0
    /\ requests' = requests - 1
    /\ estimate' = IF outcome = "ok" THEN estimate ELSE Null
    /\ last' = Did("response", AlertFor(outcome))
    /\ UNCHANGED <<build, formData, errors, timer, firstRun>>

\* a POST is answered: response.ok, a non-2xx status, or a rejected fetch (or
\* a body that is not JSON); the rest of handleSubmit runs
response(outcome) ==
    /\ requests > 0
    /\ requests' = requests - 1
    /\ last' = Did("response", AlertFor(outcome))
    /\ UNCHANGED <<build, formData, errors, estimate, timer, firstRun>>

Outcomes == {"ok", "notOk", "networkError"}

-----------------------------------------------------------------------------
(* the values the modelled user enters *)

\* a name longer than the 100 characters validateForm allows
LongName ==
    "Alexandria Bartholomew Christopherson Montgomery Featherstonehaugh Wolfeschlegelsteinhausenbergerdorff"
ClientNames == {"", "A", "Al"}
Emails == {"", "a@b.co", "a@"}
Phones == {"", "555"}
Addresses == {"", "1 Elm"}
ProjectTypes == {"", "interior", "exterior", "both"}
PaintTiers == {"standard", "premium", "designer"}
DifficultyLevels == {"basic", "standard", "moderate", "complex", "high_difficulty"}
AllSurfaceIds == InteriorSurfaceIds \cup ExteriorSurfaceIds

\* the whole form from its construction: the contact fields take every kind
\* of value, the project fields one valid value each
Next ==
    \/ \E value \in ClientNames : handleInputChange("clientName", value)
    \/ \E value \in Emails : handleInputChange("email", value)
    \/ \E value \in Phones : handleInputChange("phone", value)
    \/ \E value \in Addresses : handleInputChange("address", value)
    \/ handleInputChange("projectType", "interior")
    \/ handleInputChange("squareFootage", "2000")
    \/ handleTierSelect("standard")
    \/ timerFires
    \/ handleSubmit
    \/ \E outcome \in Outcomes : response(outcome)

Spec == Init /\ [][Next]_vars

\* the project section of the form: the state Spec reaches when the three
\* required contact fields are typed and the debounce has fired, and from
\* there every handler of the estimation fields
FormSqft == {"", "50", "2000"}
FormTiers == {"standard"}
FormDifficulties == {"basic", "complex"}
FormSurfaces == {"walls", "brick"}

ContactEntered ==
    [InitialFormData EXCEPT !.clientName = "Al", !.email = "a@b.co",
                            !.address = "1 Elm"]

InitProject ==
    /\ build \in Builds
    /\ formData = ContactEntered
    /\ errors = NoErrors
    /\ estimate = Null
    /\ requests = 0
    /\ timer = NoTimer
    /\ last = Edited
    /\ firstRun = NotRecorded

NextProject ==
    \/ \E value \in ProjectTypes : handleInputChange("projectType", value)
    \/ \E value \in FormSqft : handleInputChange("squareFootage", value)
    \/ \E value \in FormDifficulties : handleInputChange("difficultyLevel", value)
    \/ \E tier \in FormTiers : handleTierSelect(tier)
    \/ \E surface \in FormSurfaces : handleSurfaceChange(surface)
    \/ handleSubmit
    \/ \E outcome \in Outcomes : response(outcome)

SpecProject == InitProject /\ [][NextProject]_vars

\* the square footage field: the texts a number input can hold (an integer, a
\* decimal, a fraction without integer part, a negative, an exponent form,
\* or nothing), on a form otherwise filled
SqftTexts == {"", "99", "100", "2000", "150.7", ".5", "-5", "1e3"}

NextSqft ==
    \/ handleInputChange("projectType", "interior")
    \/ \E value \in SqftTexts : handleInputChange("squareFootage", value)
    \/ handleTierSelect("standard")
    \/ handleSubmit
    \/ \E outcome \in Outcomes : response(outcome)

SpecSqft == InitProject /\ [][NextSqft]_vars

\* the contact section of a form whose project fields are filled and valid:
\* every kind of contact value, the debounced check, submits and responses
ContactNames == {"", "A", "Al", LongName}
ContactEmails == {"", "a@b.co", "a@"}
ContactPhones == {"", " ", "555", "555-123-4567"}
ContactAddresses == {"", "1 Elm"}

InitContact ==
    /\ build \in Builds
    /\ formData = CompletedForm("interior", "2000", "standard", "basic", <<>>)
    /\ errors = NoErrors
    /\ estimate = Null
    /\ requests = 0
    /\ timer = NoTimer
    /\ last = Edited
    /\ firstRun = NotRecorded

NextContact ==
    \/ \E value \in ContactNames : handleInputChange("clientName", value)
    \/ \E value \in ContactEmails : handleInputChange("email", value)
    \/ \E value \in ContactPhones : handleInputChange("phone", value)
    \/ \E value \in ContactAddresses : handleInputChange("address", value)
    \/ timerFires
    \/ handleSubmit
    \/ \E outcome \in Outcomes : response(outcome)

SpecContact == InitContact /\ [][NextContact]_vars

\* repeated engine runs: the project section with the first run recorded, over
\* inputs that pass validation once the form is filled
RunTypes == {"interior", "exterior"}
RunSqft == {"500", "2000"}
RunTiers == {"standard"}
RunDifficulties == {"basic", "complex"}
RunSurfaces == {"walls"}

InitRuns ==
    /\ build \in Builds
    /\ formData = ContactEntered
    /\ errors = NoErrors
    /\ estimate = Null
    /\ requests = 0
    /\ timer = NoTimer
    /\ last = Edited
    /\ firstRun = Null

NextRuns ==
    \/ \E value \in RunTypes : handleInputChange("projectType", value)
    \/ \E value \in RunSqft : handleInputChange("squareFootage", value)
    \/ \E value \in RunDifficulties : handleInputChange("difficultyLevel", value)
    \/ \E tier \in RunTiers : handleTierSelect(tier)
    \/ \E surface \in RunSurfaces : handleSurfaceChange(surface)
    \/ handleSubmit
    \/ \E outcome \in Outcomes : response(outcome)

SpecRuns == InitRuns /\ [][NextRuns]_vars

-----------------------------------------------------------------------------
(* the engine on its own: a completed form with every valid pricing input *)

\* the square footages entered (validateForm passes each)
SqftInputs == {"100", "500", "947", "1000", "1250", "1500", "2000", "2500"}

SurfaceOrder ==
    <<"walls", "ceilings", "trim", "wood_siding", "vinyl_siding", "cement",
      "stucco", "brick">>
\* the surfaces array holding the set S
AsArray(S) == SelectSeq(SurfaceOrder, LAMBDA s : s \in S)

\* the surface sets valid for a project type
ValidSurfaces(projectType) ==
    CASE projectType = "interior" -> SUBSET InteriorSurfaceIds
      [] projectType = "exterior" -> SUBSET ExteriorSurfaceIds
      [] projectType = "both" -> SUBSET AllSurfaceIds

InitEngine ==
    /\ build \in Builds
    /\ \E projectType \in {"interior", "exterior", "both"}, sqft \in SqftInputs,
          tier \in PaintTiers, difficulty \in DifficultyLevels :
         \E S \in ValidSurfaces(projectType) :
            formData = CompletedForm(projectType, sqft, tier, difficulty, AsArray(S))
    /\ errors = NoErrors
    /\ estimate = Null
    /\ requests = 0
    /\ timer = NoTimer
    /\ last = Edited
    /\ firstRun = NotRecorded

NextEngine == handleSubmit

SpecEngine == InitEngine /\ [][NextEngine]_vars

\* the engine over every valid surface set, with two square footages (one
\* priced at the floors, one above them) and two difficulty levels
SurfaceSqft == {"500", "2000"}
SurfaceDifficulties == {"basic", "complex"}

InitSurfaces ==
    /\ build \in Builds
    /\ \E projectType \in {"interior", "exterior", "both"}, sqft \in SurfaceSqft,
          tier \in PaintTiers, difficulty \in SurfaceDifficulties :
         \E S \in ValidSurfaces(projectType) :
            formData = CompletedForm(projectType, sqft, tier, difficulty, AsArray(S))
    /\ errors = NoErrors
    /\ estimate = Null
    /\ requests = 0
    /\ timer = NoTimer
    /\ last = Edited
    /\ firstRun = NotRecorded

SpecSurfaces == InitSurfaces /\ [][NextEngine]_vars

\* the engine on keys the form never produces: paintTier and difficultyLevel
\* drawn from the table keys, two strings outside them, and a property name
\* of Object.prototype
OtherKeys == {"economy", "STANDARD", "constructor"}
KeySqft == {"500", "2000"}
KeySurfaces == {<<>>, <<"trim">>}

InitKeys ==
    /\ build \in Builds
    /\ \E projectType \in {"interior", "exterior", "both"}, sqft \in KeySqft,
          tier \in PaintTiers \cup OtherKeys,
          difficulty \in DifficultyLevels \cup OtherKeys,
          surfaces \in KeySurfaces :
         formData = CompletedForm(projectType, sqft, tier, difficulty, surfaces)
    /\ errors = NoErrors
    /\ estimate = Null
    /\ requests = 0
    /\ timer = NoTimer
    /\ last = Edited
    /\ firstRun = NotRecorded

SpecKeys == InitKeys /\ [][NextEngine]_vars

-----------------------------------------------------------------------------
(* properties *)

\* the neutral surface multiplier 1.0, in twentieths
Neutral == 2 * OneTenths

Range(arr) == {arr[i] : i \in 1..Len(arr)}

\* the preconditions of the engine: a complete, in-range ProjectInput
ValidInput(fd) ==
    /\ fd.projectType \in {"interior", "exterior", "both"}
    /\ ~parseInt(fd.squareFootage).nan
    /\ parseInt(fd.squareFootage).v >= 100
    /\ fd.paintTier \in DOMAIN PAINT_MULTIPLIERS
    /\ fd.difficultyLevel \in DOMAIN DIFFICULTY_MULTIPLIERS
    /\ Range(fd.surfaces) \in ValidSurfaces(fd.projectType)

\* the stored estimate was computed by the last handler, from the current formData
JustEstimated ==
    last.op = "handleSubmit" /\ last.passed /\ estimate # Null /\ ValidInput(formData)

\* the raw prices of the current formData
Raw == RawPrices(formData, surfaceMultiplier(formData.projectType, formData.surfaces))

\* the engine result for the current formData with one field replaced
EstimateIf(field, value) == calculateEstimate([formData EXCEPT ![field] = value])

\* C1: for every valid input the computed estimate keeps max - min >= 3000,
\* on the rounded bounds.
C1_SpreadInvariant ==
    JustEstimated =>
        /\ ~estimate.min.nan /\ ~estimate.max.nan
        /\ estimate.max.v - estimate.min.v >= MINIMUM_PRICING.rangeSpread

\* the spread floor acted on a minimum above the absolute floor that is not a
\* whole dollar, so that both bounds were rounded
C1_Witness ==
    /\ JustEstimated
    /\ NumLt(Dollars(MINIMUM_PRICING.absoluteMin), Raw.min)
    /\ SpreadFloor(Raw.min, Raw.max) # Raw.max
    /\ Raw.min.v % Scale # 0
    /\ estimate.max.v - estimate.min.v = MINIMUM_PRICING.rangeSpread

\* C2: for every valid input the computed estimate has min >= 3000.
C2_FloorInvariant ==
    JustEstimated =>
        ~estimate.min.nan /\ estimate.min.v >= MINIMUM_PRICING.absoluteMin

\* the raw minimum was below the floor and was lifted to it
C2_Witness ==
    /\ JustEstimated
    /\ NumLt(Raw.min, Dollars(MINIMUM_PRICING.absoluteMin))
    /\ estimate.min.v = MINIMUM_PRICING.absoluteMin

\* C3: with the other inputs fixed, both bounds are non-decreasing in the
\* square footage: no larger footage gives a smaller min or a smaller max.
C3_Monotonic ==
    JustEstimated =>
        \A sqft \in SqftInputs :
            parseInt(sqft).v >= parseInt(formData.squareFootage).v =>
                /\ estimate.min.v <= EstimateIf("squareFootage", sqft).min.v
                /\ estimate.max.v <= EstimateIf("squareFootage", sqft).max.v

\* the absolute floor applies at the entered footage, with a raw maximum above
\* 6000, and no longer at a larger one
C3_Witness ==
    /\ JustEstimated
    /\ NumLt(Raw.min, Dollars(MINIMUM_PRICING.absoluteMin))
    /\ NumLt(Dollars(MINIMUM_PRICING.absoluteMin + MINIMUM_PRICING.rangeSpread), Raw.max)
    /\ \E sqft \in SqftInputs :
          EstimateIf("squareFootage", sqft).min.v > MINIMUM_PRICING.absoluteMin

NextTier(tier) == IF tier = "standard" THEN "premium" ELSE "designer"
\* the raw minimum price of the current formData with another tier
RawMinOfTier(tier) ==
    RawPrices([formData EXCEPT !.paintTier = tier],
              surfaceMultiplier(formData.projectType, formData.surfaces)).min

IsScenario(projectType, sqft, tier, difficulty, S) ==
    /\ JustEstimated
    /\ formData.projectType = projectType
    /\ formData.squareFootage = sqft
    /\ formData.paintTier = tier
    /\ formData.difficultyLevel = difficulty
    /\ Range(formData.surfaces) = S

ScenarioA == IsScenario("interior", "1000", "standard", "basic", {"walls"})
ScenarioB == IsScenario("exterior", "2000", "premium", "standard", {"brick", "trim"})
ScenarioC == IsScenario("both", "1500", "designer", "moderate", {"walls", "stucco"})

C6_ScenarioA ==
    ScenarioA =>
        /\ surfaceMultiplier(formData.projectType, formData.surfaces) = Neutral
        /\ SpreadFloor(Raw.min, Raw.max)
             = NumAdd(Raw.min, Dollars(MINIMUM_PRICING.rangeSpread))
        /\ AbsoluteFloor(Raw.min, SpreadFloor(Raw.min, Raw.max))
             = [min |-> Dollars(3000), max |-> Dollars(6000)]
        /\ build = "App" =>
             /\ Raw = [min |-> Dollars(1500), max |-> Dollars(3500)]
             /\ SpreadFloor(Raw.min, Raw.max) = Dollars(4500)
        /\ estimate.min = Num(3000)
        /\ estimate.max = Num(6000)

C6_Witness == ScenarioA /\ build = "App" /\ estimate.tierName = "Standard Paint"

\* C7: Scenario B, with the base band of App.js, uses surface multiplier 1.8
\* and yields min 8424 and max 19656, neither floor changing the raw values.
C7_ScenarioB ==
    ScenarioB /\ build = "App" =>
        /\ surfaceMultiplier(formData.projectType, formData.surfaces) = 36
        /\ Raw = [min |-> Dollars(8424), max |-> Dollars(19656)]
        /\ SpreadFloor(Raw.min, Raw.max) = Raw.max
        /\ AbsoluteFloor(Raw.min, Raw.max) = Raw
        /\ estimate.min = Num(8424)
        /\ estimate.max = Num(19656)

C7_Witness == ScenarioB /\ build = "App" /\ estimate.tierName = "Premium Paint"

\* C8: Scenario C, with the base band of App.js, uses surface multiplier
\* (max(1.0, 1.0) + 1.5) / 2 = 1.25 and yields min 6750 and max 15750.
C8_ScenarioC ==
    ScenarioC /\ build = "App" =>
        /\ BothInterior(formData.surfaces) = OneTenths
        /\ BothExterior(formData.surfaces) = 15
        /\ surfaceMultiplier(formData.projectType, formData.surfaces) = 25
        /\ estimate.min = Num(6750)
        /\ estimate.max = Num(15750)

C8_Witness ==
    ScenarioC /\ build = "App" /\ estimate.tierName = "Designer/Specialty Paint"

\* C9: for every project type an empty surface set gives surface multiplier
\* exactly 1.0, and the estimate is the one computed without the surface step.
C9_EmptySurfaces ==
    JustEstimated /\ Len(formData.surfaces) = 0 =>
        /\ surfaceMultiplier(formData.projectType, formData.surfaces) = Neutral
        /\ estimate = EstimateWith(formData, Neutral)

\* an estimate above both floors computed for a project with no surface
C9_Witness ==
    /\ JustEstimated
    /\ Len(formData.surfaces) = 0
    /\ formData.projectType = "interior"
    /\ estimate.min.v > MINIMUM_PRICING.absoluteMin

\* the fields C10 names that make the form fail validation
Offending(fd) ==
    {field \in {"projectType"} : fd.projectType = ""}
    \cup {field \in {"paintTier"} : fd.paintTier = ""}
    \cup {field \in {"squareFootage"} :
             \/ fd.squareFootage = ""
             \/ NumLt(parseInt(fd.squareFootage), Num(100))}

\* C10: a submit with projectType unset, paintTier unset, squareFootage empty
\* or squareFootage parsing below 100 runs no engine and issues no POST: the
\* stored estimate and the POSTs in flight are unchanged, and every offending
\* field gets an error message.
C10_InvalidSubmitBlocked ==
    [][last'.op = "handleSubmit" /\ Offending(formData) # {} =>
          /\ ~last'.passed
          /\ ~last'.engine
          /\ last'.body = NoBody
          /\ estimate' = estimate
          /\ requests' = requests
          /\ \A field \in Offending(formData) :
                 field \in DOMAIN errors' /\ errors'[field] # ""]_vars

\* a submit with a square footage of 50 was refused while an earlier estimate
\* is stored and its POST is still in flight
C10_Witness ==
    /\ last.op = "handleSubmit"
    /\ ~last.passed
    /\ Offending(formData) = {"squareFootage"}
    /\ formData.squareFootage = "50"
    /\ errors["squareFootage"] = "Square footage must be at least 100"
    /\ estimate # Null
    /\ requests > 0

\* the last handler was a submit that ran calculateEstimate on the current form
EngineRan == last.op = "handleSubmit" /\ last.engine

\* C11: whenever calculateEstimate runs, every id of formData.surfaces is valid
\* for the chosen projectType, after any project-type changes and toggles.
C11_SurfacesValid ==
    EngineRan => Range(formData.surfaces) \in ValidSurfaces(formData.projectType)

\* an interior project priced with a stale exterior surface: the multiplier is 0
\* and the estimate is the pair of floors
C11_StaleSurfacePriced ==
    /\ EngineRan
    /\ formData.projectType = "interior"
    /\ formData.surfaces = <<"brick">>
    /\ formData.squareFootage = "2000"
    /\ surfaceMultiplier(formData.projectType, formData.surfaces) = 0
    /\ estimate.min = Num(3000)
    /\ estimate.max = Num(6000)

\* the last handler was a submit that passed validateForm
SubmitPassed == last.op = "handleSubmit" /\ last.passed

\* C12: every submit that passes validateForm leaves a non-null estimate whose
\* min and max are integers with 0 <= min <= max.
C12_EstimateWellFormed ==
    SubmitPassed =>
        /\ estimate # Null
        /\ ~estimate.min.nan
        /\ ~estimate.max.nan
        /\ 0 <= estimate.min.v
        /\ estimate.min.v <= estimate.max.v

\* a square footage of ".5" passed validateForm: the stored estimate and the
\* posted squareFootage are NaN
C12_NaNEstimate ==
    /\ SubmitPassed
    /\ formData.squareFootage = ".5"
    /\ estimate # Null
    /\ estimate.min = NaN
    /\ estimate.max = NaN
    /\ last.body.squareFootage = NaN

AtDefaults(fd) ==
    /\ fd.surfaces = InitialFormData.surfaces
    /\ fd.difficultyLevel = InitialFormData.difficultyLevel

\* the prices of sqft square feet with the tier multiplier alone: difficulty
\* and surface multiplier both 1.0
TierOnlyPrices(fd) ==
    LET perSqft == LookupOr1(PAINT_MULTIPLIERS, fd.paintTier) * OneTenths * Neutral
    IN  ApplyFloors(NumMul(parseInt(fd.squareFootage), Num(BASE_RATES.min * perSqft)),
                    NumMul(parseInt(fd.squareFootage), Num(BASE_RATES.max * perSqft)))

\* C14: the form starts with no surface and difficulty 'basic'; validateForm
\* raises no error for either, so a submit with them untouched and the
\* required fields valid passes, and the estimate is computed with difficulty
\* multiplier 1.0 and surface multiplier 1.0.
C14_DefaultsSubmit ==
    /\ InitialFormData.surfaces = <<>>
    /\ InitialFormData.difficultyLevel = "basic"
    /\ last.op = "handleSubmit" /\ AtDefaults(formData) =>
          /\ "surfaces" \notin DOMAIN errors
          /\ "difficultyLevel" \notin DOMAIN errors
          /\ Offending(formData) = {} =>
                /\ last.passed
                /\ estimate # Null
                /\ estimate.min = TierOnlyPrices(formData).min
                /\ estimate.max = TierOnlyPrices(formData).max

\* 2000 square feet submitted with surfaces and difficulty untouched
C14_Witness ==
    /\ SubmitPassed
    /\ formData.surfaces = <<>>
    /\ formData.difficultyLevel = "basic"
    /\ formData.squareFootage = "2000"
    /\ errors = NoErrors
    /\ estimate.min = Num((2000 * BASE_RATES.min) \div 4)
    /\ estimate.min.v >= MINIMUM_PRICING.absoluteMin

\* the fields of the form that the POST body repeats unchanged
PostedAsTyped ==
    {"clientName", "email", "phone", "address", "projectType", "paintTier",
     "surfaces", "difficultyLevel"}

\* C15: the body posted by handleSubmit carries the form input of the click
\* (the contact fields, projectType, paintTier, surfaces, difficultyLevel, and
\* squareFootage as an integer) and no min, max or tierName field.
C15_BodyIsInput ==
    SubmitPassed =>
        /\ \A field \in PostedAsTyped : last.body[field] = formData[field]
        /\ last.body.squareFootage = parseInt(formData.squareFootage)
        /\ ~last.body.squareFootage.nan
        /\ DOMAIN last.body \cap {"min", "max", "tierName"} = {}

\* a body with squareFootage 150 for the text "150.7", next to a stored
\* estimate that it does not repeat
C15_InputPosted ==
    /\ SubmitPassed
    /\ formData.squareFootage = "150.7"
    /\ last.body.squareFootage = Num(150)
    /\ last.body.projectType = "interior"
    /\ estimate # Null
    /\ DOMAIN last.body \cap DOMAIN estimate = {}

\* the alerts of a POST that failed
FailureAlerts == {AlertFor("notOk"), AlertFor("networkError")}

\* the last handler was the rest of handleSubmit after a failed POST
PostFailed == last.op = "response" /\ last.alert \in FailureAlerts

\* C16: a non-2xx response or a network failure leaves formData, errors and the
\* estimate unchanged and ends in an alert (nothing is thrown), and a submit of
\* the same valid form right after it passes validation and issues a new POST.
C16_FailureRecoverable ==
    [][/\ PostFailed' =>
             /\ UNCHANGED <<formData, errors, estimate>>
             /\ requests' = requests - 1
       /\ PostFailed /\ last'.op = "handleSubmit" /\ FormIsValid(formData) =>
             /\ last'.passed
             /\ last'.body = submissionData(formData)
             /\ requests' = requests + 1]_vars

\* after a network failure the estimate of the submit is still stored, the
\* form is as valid as it was, and no POST is pending
C16_Witness ==
    /\ PostFailed
    /\ last.alert = AlertFor("networkError")
    /\ estimate # Null
    /\ estimate = calculateEstimate(formData)
    /\ FormIsValid(formData)
    /\ errors = NoErrors
    /\ requests = 0

\* C17: a step that issues a POST is a submit in which calculateEstimate has
\* run on the same form data and stored its estimate; the estimate is stored
\* in that step, with the POST still unanswered, and no response changes it.
C17_EngineBeforePost ==
    [][/\ requests' > requests =>
             /\ last'.op = "handleSubmit"
             /\ last'.engine
             /\ estimate' # Null
             /\ estimate' = calculateEstimate(formData)
             /\ last'.body = submissionData(formData)
       /\ estimate' # estimate => last'.op = "handleSubmit" /\ requests' > 0]_vars

\* the estimate of the submitted form is stored while its POST is in flight
C17_Witness ==
    /\ SubmitPassed
    /\ requests = 1
    /\ estimate # Null
    /\ estimate.min.v > MINIMUM_PRICING.absoluteMin
    /\ estimate = calculateEstimate(formData)

\* the contact fields as C18 requires them: a trimmed name of 2 to 100
\* characters, a non-empty email matching the pattern, a non-blank address, and
\* a phone that is blank or matches the pattern
ContactWellFormed(fd) ==
    /\ Len(trim(fd.clientName)) >= 2
    /\ Len(trim(fd.clientName)) <= 100
    /\ fd.email # ""
    /\ validateEmail(fd.email)
    /\ trim(fd.address) # ""
    /\ trim(fd.phone) = "" \/ (fd.phone # "" /\ validatePhoneNumber(fd.phone))

\* the pricing inputs pass validateForm
PricingValid(fd) == Offending(fd) = {} /\ ~parseInt(fd.squareFootage).nan

Indicator(cond) == IF cond THEN 1 ELSE 0

\* the interior multiplier C19 states for the surface set S, in twentieths
StatedInterior(S) ==
    2 * (10 * Indicator("walls" \in S) + 4 * Indicator("ceilings" \in S)
         + 3 * Indicator("trim" \in S) + 8 * Indicator("walls" \notin S))

\* C19: for an interior project and a non-empty subset S of walls, ceilings and
\* trim, the surface multiplier is 1.0 for walls + 0.4 for ceilings + 0.3 for
\* trim, plus 0.8 when walls is not in S: 1.2 for ceilings alone, 1.1 for trim
\* alone, 1.5 for ceilings and trim, 1.7 for all three.
C19_InteriorAdditive ==
    JustEstimated /\ formData.projectType = "interior" /\ Len(formData.surfaces) > 0 =>
        LET S == Range(formData.surfaces)
            m == surfaceMultiplier(formData.projectType, formData.surfaces)
        IN  /\ m = StatedInterior(S)
            /\ estimate = EstimateWith(formData, StatedInterior(S))
            /\ S = {"ceilings"} => m = 24
            /\ S = {"trim"} => m = 22
            /\ S = {"ceilings", "trim"} => m = 30
            /\ S = {"walls", "ceilings", "trim"} => m = 34

\* ceilings and trim without walls, priced above the floors at 1.5
C19_Witness ==
    /\ JustEstimated
    /\ formData.projectType = "interior"
    /\ Range(formData.surfaces) = {"ceilings", "trim"}
    /\ surfaceMultiplier(formData.projectType, formData.surfaces) = 30
    /\ estimate.min.v > MINIMUM_PRICING.absoluteMin

\* C20: for an interior project, a non-empty surface set without walls gets the
\* minimum base 0.8, so its surface multiplier is at least 0.8 and never zero,
\* for every surface set the form can hold while the project type is interior.
C20_NonWallBase ==
    /\ formData.projectType = "interior"
    /\ Len(formData.surfaces) > 0
    /\ ~includes(formData.surfaces, "walls")
    => surfaceMultiplier(formData.projectType, formData.surfaces)
           >= 2 * MinimumBaseTenths

\* the form of part_000 holds an interior project whose only surface is the
\* brick ticked while the project was exterior: no base is added
C20_ZeroMultiplier ==
    /\ build = "part_000"
    /\ formData.projectType = "interior"
    /\ formData.surfaces = <<"brick">>
    /\ estimate = Null
    /\ InteriorBranch(formData.surfaces) = 0
    /\ FormIsValid(formData)

\* the primary exterior weights C21 states, in tenths
StatedPrimary ==
    [wood_siding |-> 10, vinyl_siding |-> 11, cement |-> 13, stucco |-> 15,
     brick |-> 16]

\* the highest stated weight among the primaries of S
StatedHardest(S) ==
    CHOOSE w \in {StatedPrimary[s] : s \in S \cap PrimaryExterior} :
        \A s \in S \cap PrimaryExterior : StatedPrimary[s] <= w

\* the exterior multiplier C21 states for the non-empty surface set S, in
\* twentieths
StatedExterior(S) ==
    IF S \cap PrimaryExterior = {} THEN 24
    ELSE 2 * (StatedHardest(S) + 2 * Indicator("trim" \in S))

\* C21: for an exterior project with surfaces selected, the surface multiplier
\* is the highest weight among the selected primaries (not their sum), plus 0.2
\* when trim is selected too, and 1.2 for trim alone; a set of primaries is
\* priced as its hardest member alone.
C21_ExteriorMax ==
    JustEstimated /\ formData.projectType = "exterior" /\ Len(formData.surfaces) > 0 =>
        LET S == Range(formData.surfaces)
            m == surfaceMultiplier(formData.projectType, formData.surfaces)
        IN  /\ m = StatedExterior(S)
            /\ estimate = EstimateWith(formData, StatedExterior(S))
            /\ S = {"trim"} => m = 24
            /\ \A s \in S \cap PrimaryExterior :
                 StatedPrimary[s] = StatedHardest(S) =>
                    estimate = EstimateIf("surfaces", AsArray({s} \cup (S \cap {"trim"})))

\* three primaries and trim, priced above the floors as stucco with trim: 1.7
C21_Witness ==
    /\ JustEstimated
    /\ formData.projectType = "exterior"
    /\ Range(formData.surfaces) = {"wood_siding", "cement", "stucco", "trim"}
    /\ surfaceMultiplier(formData.projectType, formData.surfaces) = 34
    /\ estimate = EstimateIf("surfaces", <<"trim", "stucco">>)
    /\ estimate.min.v > MINIMUM_PRICING.absoluteMin

\* the interior accumulator C22 states for the surface set S, in tenths
StatedBothInterior(S) ==
    10 * Indicator("walls" \in S) + 4 * Indicator("ceilings" \in S)
    + 3 * Indicator("trim" \in S /\ S \cap {"walls", "ceilings"} # {})

\* the exterior accumulator C22 states for the surface set S, in tenths
StatedBothExterior(S) ==
    IF S \cap PrimaryExterior = {} THEN 10 ELSE StatedHardest(S)

\* the mean of max(interiorAcc, 1.0) and exteriorAcc, in twentieths
StatedMean(interiorAcc, exteriorAcc) ==
    (IF interiorAcc >= 10 THEN interiorAcc ELSE 10) + exteriorAcc

\* a 'both' project with surfaces selected was just priced
BothPriced ==
    JustEstimated /\ formData.projectType = "both" /\ Len(formData.surfaces) > 0

\* C22, amended: for a 'both' project with surfaces selected the surface
\* multiplier is (max(interiorAcc, 1.0) + exteriorAcc) / 2, interiorAcc being
\* the walls and ceilings weights selected plus interior trim 0.3 when walls or
\* ceilings is selected, exteriorAcc the highest selected primary weight plus
\* exterior trim 0.2 when trim is selected with a primary, 1.0 when no primary
\* is selected; the value of the shared exterior branch is overwritten.
C22_BothMean ==
    BothPriced =>
        LET S == Range(formData.surfaces)
            exteriorAcc ==
                StatedBothExterior(S)
                + 2 * Indicator("trim" \in S /\ S \cap PrimaryExterior # {})
            stated == StatedMean(StatedBothInterior(S), exteriorAcc)
        IN  /\ surfaceMultiplier(formData.projectType, formData.surfaces) = stated
            /\ estimate = EstimateWith(formData, stated)

\* walls, ceilings, trim and brick: (1.7 + 1.8) / 2 = 1.75, where the shared
\* exterior branch had computed 1.8
C22_Witness ==
    /\ BothPriced
    /\ Range(formData.surfaces) = {"walls", "ceilings", "trim", "brick"}
    /\ surfaceMultiplier(formData.projectType, formData.surfaces) = 35
    /\ ExteriorBranch(formData.surfaces, OneTenths) = 18
    /\ estimate.min.v > MINIMUM_PRICING.absoluteMin

\* C22 as stated: exteriorAcc is the highest selected primary weight, 1.0 when
\* none is selected, with no trim weight in it.
C22_BothMeanAsStated ==
    BothPriced =>
        LET S == Range(formData.surfaces)
            stated == StatedMean(StatedBothInterior(S), StatedBothExterior(S))
        IN  /\ surfaceMultiplier(formData.projectType, formData.surfaces) = stated
            /\ estimate = EstimateWith(formData, stated)

\* a 'both' project with trim and no primary exterior surface was just priced
BothTrimNoPrimary ==
    /\ BothPriced
    /\ includes(formData.surfaces, "trim")
    /\ Range(formData.surfaces) \cap PrimaryExterior = {}

\* C23: for a 'both' project with trim and no primary exterior surface selected
\* the exterior accumulator is 1.0 + 0.2 = 1.2, the interior accumulator gets
\* the interior trim weight only when walls or ceilings is selected, and trim
\* alone gives the surface multiplier (1.0 + 1.2) / 2 = 1.1.
C23_TrimWithoutPrimary ==
    BothTrimNoPrimary =>
        LET S == Range(formData.surfaces)
            m == surfaceMultiplier(formData.projectType, formData.surfaces)
        IN  /\ BothExterior(formData.surfaces) = 12
            /\ BothInterior(formData.surfaces) = StatedBothInterior(S)
            /\ m = StatedMean(StatedBothInterior(S), 12)
            /\ S = {"trim"} => m = 22

\* trim alone on a 'both' project: the exterior accumulator stays at 1.0 and
\* the project is priced at the neutral multiplier, above the floors
C23_TrimOnlyNeutral ==
    /\ BothTrimNoPrimary
    /\ Range(formData.surfaces) = {"trim"}
    /\ BothExterior(formData.surfaces) = OneTenths
    /\ surfaceMultiplier(formData.projectType, formData.surfaces) = Neutral
    /\ estimate = EstimateIf("surfaces", <<>>)
    /\ estimate.min.v > MINIMUM_PRICING.absoluteMin

\* 3000 and 6000 dollars in the unit of the raw prices
Stated3000 == 3000 * Scale
Stated6000 == 6000 * Scale

\* the bounds C24 states for the raw bounds (m, M), before rounding
StatedFloors(m, M) ==
    LET spread == IF M - m >= Stated3000 THEN M ELSE m + Stated3000
    IN  IF m < Stated3000
        THEN [min |-> Stated3000,
              max |-> IF spread >= Stated6000 THEN spread ELSE Stated6000]
        ELSE [min |-> m, max |-> spread]

\* C24: the spread floor is applied first, then the absolute floor: with raw
\* bounds (m, M), M' is M if M - m >= 3000 and m + 3000 otherwise; the result
\* is (3000, max(M', 6000)) if m < 3000 and (m, M') otherwise.  Whenever the raw
\* minimum is below 3000 the result has min = 3000 and max >= 6000, and max is
\* not raised by the amount min was raised.
C24_FloorOrder ==
    JustEstimated =>
        LET m == Raw.min.v
            M == Raw.max.v
            stated == StatedFloors(m, M)
            spread == SpreadFloor(Raw.min, Raw.max)
        IN  /\ AbsoluteFloor(Raw.min, spread)
                 = [min |-> Num(stated.min), max |-> Num(stated.max)]
            /\ estimate.min = MathRound(Num(stated.min))
            /\ estimate.max = MathRound(Num(stated.max))
            /\ m < Stated3000 =>
                 /\ estimate.min = Num(3000)
                 /\ estimate.max.v >= 6000
                 /\ spread.v >= Stated6000 => estimate.max = MathRound(spread)

\* the raw minimum is below 3000 and the raw maximum above 6000: min is raised
\* to 3000 and max is left where it was
C24_Witness ==
    /\ JustEstimated
    /\ Raw.min.v < Stated3000
    /\ Raw.max.v > Stated6000
    /\ estimate.min = Num(3000)
    /\ estimate.max = MathRound(Raw.max)
    /\ estimate.max.v > 6000

\* C25: the stored estimate is null until a submit passes validation; a submit
\* that passes stores the engine result for the form data it read, and every
\* other step (a field edit, a surface toggle, a submit that fails validation,
\* a response or failure of any pending POST) leaves the estimate as it was.
C25_EstimateOfLastValidSubmit ==
    /\ estimate = Null
    /\ [][IF last'.op = "handleSubmit" /\ last'.passed
          THEN /\ estimate' = calculateEstimate(formData)
               /\ estimate' # NoResult
               /\ formData' = formData
          ELSE estimate' = estimate]_vars

\* two submits overlapped: one POST is answered while the other is pending, and
\* the form has been edited since the estimate was stored
C25_Witness ==
    /\ last.op = "response"
    /\ requests = 1
    /\ estimate # Null
    /\ FormIsValid(formData)
    /\ calculateEstimate(formData) # estimate

\* the surface ids valid for a project type
ValidIds(projectType) == UNION ValidSurfaces(projectType)

\* the surfaces array after ticking the checkbox of an unselected surface
Ticked(surface) == Append(formData.surfaces, surface)

\* C26: for every project type and every surface set valid for it, adding one
\* more valid surface never lowers the surface multiplier, hence never lowers
\* min or max of the estimate.
C26_SurfaceMonotonic ==
    JustEstimated =>
        LET before == surfaceMultiplier(formData.projectType, formData.surfaces)
        IN  \A surface \in ValidIds(formData.projectType) \ Range(formData.surfaces) :
                LET after == surfaceMultiplier(formData.projectType, Ticked(surface))
                    more == EstimateWith(formData, after)
                IN  /\ after >= before
                    /\ more.min.v >= estimate.min.v
                    /\ more.max.v >= estimate.max.v

\* brick is selected on an exterior project and wood_siding can be added: the
\* multiplier stays at 1.6; adding trim raises both bounds
C26_Witness ==
    /\ JustEstimated
    /\ formData.projectType = "exterior"
    /\ Range(formData.surfaces) = {"brick"}
    /\ surfaceMultiplier(formData.projectType, Ticked("wood_siding")) = 32
    /\ EstimateIf("surfaces", Ticked("wood_siding")).min = estimate.min
    /\ EstimateIf("surfaces", Ticked("trim")).min.v > estimate.min.v
    /\ EstimateIf("surfaces", Ticked("trim")).max.v > estimate.max.v

\* C27: for every project type and every surface set valid for it the surface
\* multiplier is at least 1.0, so the estimate is never below the estimate with
\* no surface selected for the same tier, difficulty and square footage.
C27_AtLeastNeutral ==
    JustEstimated =>
        LET none == EstimateIf("surfaces", <<>>)
        IN  /\ surfaceMultiplier(formData.projectType, formData.surfaces) >= Neutral
            /\ estimate.min.v >= none.min.v
            /\ estimate.max.v >= none.max.v

\* ceilings alone on a 'both' project: the interior accumulator 0.4 is lifted
\* to 1.0 and the project is priced as with no surface, above the floors
C27_Witness ==
    /\ JustEstimated
    /\ formData.projectType = "both"
    /\ Range(formData.surfaces) = {"ceilings"}
    /\ BothInterior(formData.surfaces) < OneTenths
    /\ surfaceMultiplier(formData.projectType, formData.surfaces) = Neutral
    /\ estimate = EstimateIf("surfaces", <<>>)
    /\ estimate.min.v > MINIMUM_PRICING.absoluteMin

\* the difficulty levels in the order C28 states, with the stated multipliers
\* in tenths
StatedDifficultyOrder ==
    <<"basic", "standard", "moderate", "complex", "high_difficulty">>
StatedDifficulty == <<10, 12, 15, 20, 25>>

\* C28: for inputs identical except for difficultyLevel both bounds of the
\* estimate are non-decreasing along basic <= standard <= moderate <= complex
\* <= high_difficulty, whose multipliers are 1.0, 1.2, 1.5, 2.0 and 2.5.
C28_DifficultyOrdering ==
    JustEstimated =>
        \A i, j \in 1..Len(StatedDifficultyOrder) :
            /\ DIFFICULTY_MULTIPLIERS[StatedDifficultyOrder[i]] = StatedDifficulty[i]
            /\ formData.difficultyLevel = StatedDifficultyOrder[i] /\ i < j =>
                 LET harder == EstimateIf("difficultyLevel", StatedDifficultyOrder[j])
                 IN  /\ estimate.min.v <= harder.min.v
                     /\ estimate.max.v <= harder.max.v

\* a basic project priced at the floors: the standard level leaves both bounds
\* where they are and the complex level raises both
C28_Witness ==
    /\ JustEstimated
    /\ formData.difficultyLevel = "basic"
    /\ estimate = EstimateIf("difficultyLevel", "standard")
    /\ estimate.min = Num(MINIMUM_PRICING.absoluteMin)
    /\ EstimateIf("difficultyLevel", "complex").min.v > estimate.min.v
    /\ EstimateIf("difficultyLevel", "complex").max.v > estimate.max.v

\* the raw minimum is at least 3000 and the raw spread at least 3000
AboveBothFloors ==
    /\ JustEstimated
    /\ Raw.min.v >= Stated3000
    /\ Raw.max.v - Raw.min.v >= Stated3000

\* dollars is an integer nearest to the amount x counted in 1/Scale dollar
NearestTo(dollars, x) ==
    /\ ~dollars.nan
    /\ 2 * (dollars.v * Scale - x.v) <= Scale
    /\ 2 * (x.v - dollars.v * Scale) <= Scale

\* C29: when the raw minimum is at least 3000 and the raw spread is at least
\* 3000, neither floor changes anything: the result is the raw minimum and the
\* raw maximum, each rounded to the nearest integer.
C29_FloorsIdle ==
    AboveBothFloors =>
        /\ SpreadFloor(Raw.min, Raw.max) = Raw.max
        /\ AbsoluteFloor(Raw.min, Raw.max) = Raw
        /\ NearestTo(estimate.min, Raw.min)
        /\ NearestTo(estimate.max, Raw.max)

\* both raw bounds have a fractional part, one rounded down and one rounded up
C29_Witness ==
    /\ AboveBothFloors
    /\ estimate.min.v * Scale < Raw.min.v
    /\ estimate.max.v * Scale > Raw.max.v

\* the array holds no id twice
NoDuplicates(arr) == \A i, j \in 1..Len(arr) : arr[i] = arr[j] => i = j

\* C30: handleSurfaceChange is a set toggle: formData.surfaces never holds an
\* id twice; a toggle of an absent id adds it and a toggle of a present id
\* removes it; a second toggle of the same id restores the set of selected
\* surfaces; no other field of formData changes.  (Only a toggle changes the
\* array, so the steps that change it are the ones examined.)
C30_SurfaceToggle ==
    /\ []NoDuplicates(formData.surfaces)
    /\ [][formData'.surfaces # formData.surfaces =>
            \A surface \in AllSurfaceIds :
                handleSurfaceChange(surface) =>
                    LET before == Range(formData.surfaces)
                        after == Range(formData'.surfaces)
                    IN  /\ surface \notin before => after = before \cup {surface}
                        /\ surface \in before => after = before \ {surface}
                        /\ Range(toggle(formData'.surfaces, surface)) = before
                        /\ \A field \in DOMAIN formData \ {"surfaces"} :
                             formData'[field] = formData[field]]_vars

\* walls was ticked after brick on a form that went from exterior to interior:
\* two ids in the array, in the order of the ticks
C30_Witness ==
    /\ last = Edited
    /\ formData.projectType = "interior"
    /\ formData.surfaces = <<"brick", "walls">>
    /\ toggle(formData.surfaces, "brick") = <<"walls">>

====
